---- MODULE Spec2Model ----
(***************************************************************************)
(* The agent-turn runtime of OpenAI_agents.py: run_full_turn (the turn     *)
(* driver), execute_tool_call (the dispatcher), the agents declared in the *)
(* file and the main interaction loop that calls run_full_turn.            *)
(*                                                                         *)
(* Python lists are objects: the caller's list `messages` and the list     *)
(* the driver appends to are modelled as cells of `lists`, and the         *)
(* driver's local name `messages` as a reference to one of the cells, so   *)
(* that `messages.copy()` is something the model can get wrong.            *)
(***************************************************************************)
EXTENDS Integers, Sequences, FiniteSets, TLC

VARIABLES
    agent,              \* module-level `agent` of the main loop
    lists,              \* the list objects: L0 = module-level `messages`, L1 = the driver's copy
    fn_messages,        \* run_full_turn's local name `messages`: the list it refers to
    current_agent,      \* run_full_turn's local `current_agent`
    num_init_messages,  \* run_full_turn's local `num_init_messages`
    tools,              \* run_full_turn's local `tools` (name -> callable), built at line 141
    message,            \* run_full_turn's local `message`, the last assistant message
    idx,                \* position of the for loop of line 159 in message.tool_calls
    pc,                 \* where the program is
    response,           \* the Response returned by run_full_turn
    error,              \* the exception that ended the program, if any
    completions,        \* number of calls of client.chat.completions.create so far
    calls_log,          \* the tool callables invoked in the current turn, in order
    h_entry,            \* the caller's history at the moment run_full_turn was called
    h_appended,         \* the messages run_full_turn appended in the current turn
    h_turn_completions, \* completion calls made in the current turn
    request,            \* the arguments of the last completion call
    af,                 \* Agent_functions.run_full_turn on the same inputs
    fs_func,            \* function_to_schema's argument `func`
    fs_result           \* what function_to_schema(func) returned or raised

vars == <<agent, lists, fn_messages, current_agent, num_init_messages, tools,
          message, idx, pc, response, error, completions, calls_log,
          h_entry, h_appended, h_turn_completions, request, af, fs_func, fs_result>>

\* the state of run_full_turn and of the main loop
turn_vars == <<agent, lists, fn_messages, current_agent, num_init_messages, tools,
               message, idx, pc, response, error, completions, calls_log,
               h_entry, h_appended, h_turn_completions, request, af>>

(***************************************************************************)
(* Bounds                                                                  *)
(***************************************************************************)
\* longest tool_calls list the completion endpoint returns
MaxCalls == 2
\* completion calls in one run of the program; the last one allowed
\* returns an assistant message without tool calls
MaxCompletions == 3
\* most parameters of a callable handed to function_to_schema
MaxParams == 2

(***************************************************************************)
(* Values                                                                  *)
(***************************************************************************)
\* a Python value a tool can return, or a message content
Str(s) == [kind |-> "str", v |-> s]

PyNone == [kind |-> "NoneType", v |-> "None"]

AgentValue(a) == [kind |-> "Agent", v |-> a]

NoId == <<0, 0>>

NoMessage == [role |-> "none", id |-> 0, tool_calls |-> <<>>,
              tool_call_id |-> NoId, content |-> PyNone]

NoError == [kind |-> "none", id |-> NoId, name |-> ""]

NoResponse == [agent |-> "none", messages |-> <<>>]

(***************************************************************************)
(* The callables and the agents                                            *)
(***************************************************************************)
\* the callables of the two files, a second callable that is also named
\* sample_function, and the builtin max
Callables == {"transfer_to_sales_agent", "transfer_to_issues_and_repairs",
              "transfer_back_to_triage", "escalate_to_human", "execute_order",
              "look_up_item", "execute_refund", "sample_function",
              "sample_function_v1", "max"}

\* tool.__name__
FuncName(t) == IF t = "sample_function_v1" THEN "sample_function" ELSE t

AgentIds == {"triage_agent", "sales_agent", "issues_and_repairs_agent", "plain_agent",
             "bare_agent", "builtin_agent"}

\* the Agent records; plain_agent, bare_agent and builtin_agent are Agents
\* built by a caller: the defaults of the class with a tool list that
\* names sample_function twice, Agent(model="gpt-4o") with the default
\* empty tool list, and an Agent whose tool is a builtin
Agents ==
    [a \in AgentIds |->
        CASE a = "triage_agent" ->
                [name |-> "Triage Agent", model |-> "gpt-4o-mini",
                 instructions |-> "You are a customer service bot for ACME Inc.",
                 tools |-> <<"transfer_to_sales_agent", "transfer_to_issues_and_repairs",
                             "escalate_to_human">>]
          [] a = "sales_agent" ->
                [name |-> "Sales Agent", model |-> "gpt-4o-mini",
                 instructions |-> "You are a sales agent for ACME Inc.",
                 tools |-> <<"execute_order", "transfer_back_to_triage">>]
          [] a = "issues_and_repairs_agent" ->
                [name |-> "Issues and Repairs Agent", model |-> "gpt-4o-mini",
                 instructions |-> "You are a customer support agent for ACME Inc.",
                 tools |-> <<"execute_refund", "look_up_item", "transfer_back_to_triage">>]
          [] a = "plain_agent" ->
                [name |-> "Agent", model |-> "gpt-4o-mini",
                 instructions |-> "You are a helpful Agent",
                 tools |-> <<"sample_function_v1", "sample_function">>]
          [] a = "bare_agent" ->
                [name |-> "Agent", model |-> "gpt-4o",
                 instructions |-> "You are a helpful Agent",
                 tools |-> <<>>]
          [] OTHER ->
                [name |-> "Agent", model |-> "gpt-4o-mini",
                 instructions |-> "You are a helpful Agent",
                 tools |-> <<"max">>]]

\* the agents a caller starts a conversation with
StartAgents == {"triage_agent", "plain_agent", "bare_agent", "builtin_agent"}

\* what calling the callable does: the values it can return, or the
\* exception it raises
Invoke(t) ==
    CASE t = "transfer_to_sales_agent" ->
            {[exc |-> "none", value |-> AgentValue("sales_agent")]}
      [] t = "transfer_to_issues_and_repairs" ->
            {[exc |-> "none", value |-> AgentValue("issues_and_repairs_agent")]}
      [] t = "transfer_back_to_triage" ->
            {[exc |-> "none", value |-> AgentValue("triage_agent")]}
      [] t = "escalate_to_human" ->
            {[exc |-> "SystemExit", value |-> PyNone]}
      [] t = "execute_order" ->
            {[exc |-> "none", value |-> Str("Success")],
             [exc |-> "none", value |-> Str("User cancelled order.")]}
      [] t = "look_up_item" ->
            {[exc |-> "none", value |-> Str("item_132612938")]}
      [] t = "execute_refund" ->
            {[exc |-> "none", value |-> Str("success")]}
      [] t = "sample_function_v1" ->
            {[exc |-> "none", value |-> Str("v1")]}
      [] t = "max" ->
            {[exc |-> "TypeError", value |-> PyNone]}
      [] OTHER ->
            {[exc |-> "none", value |-> PyNone]}

(***************************************************************************)
(* The completion endpoint                                                 *)
(***************************************************************************)
\* serialized arguments: a well-formed object binding the callee's
\* parameters, and a truncated one
WellFormedArgs == "{...}"

MalformedArgs == "{..."

\* json.loads: the decoded object, or the decode error
json_loads(s) ==
    IF s = WellFormedArgs THEN [ok |-> TRUE, exc |-> "none"]
    ELSE [ok |-> FALSE, exc |-> "JSONDecodeError"]

\* the callables the model asks for by name. Of those left out,
\* look_up_item and execute_refund return text like execute_order,
\* transfer_to_issues_and_repairs returns an Agent like
\* transfer_to_sales_agent, and max belongs to an agent whose turn ends
\* before the first completion
RequestedCallables ==
    Callables \ {"look_up_item", "execute_refund", "transfer_to_issues_and_repairs", "max"}

\* what the model may ask for: a declared tool, a name no agent declares,
\* and a declared name with malformed arguments. A name declared by one
\* agent is unknown to the registry of another.
Requests ==
    {[name |-> FuncName(t), arguments |-> WellFormedArgs] : t \in RequestedCallables}
    \cup {[name |-> "unknown_tool", arguments |-> WellFormedArgs],
          [name |-> "execute_order", arguments |-> MalformedArgs]}

SeqsUpTo(S, n) == UNION {[1..k -> S] : k \in 0..n}

\* the tool_calls lists the endpoint may return at the c-th completion call
Batches(c) == IF c >= MaxCompletions THEN {<<>>} ELSE SeqsUpTo(Requests, MaxCalls)

\* the provider-assigned id of the i-th tool call of the c-th completion
CallId(c, i) == <<c, i>>

ToolCalls(c, batch) ==
    [i \in 1..Len(batch) |->
        [id |-> CallId(c, i), name |-> batch[i].name, arguments |-> batch[i].arguments]]

AssistantMessage(c, batch) ==
    [role |-> "assistant", id |-> c, tool_calls |-> ToolCalls(c, batch),
     tool_call_id |-> NoId, content |-> Str("")]

\* the assistant messages the endpoint may return at each completion call
AssistantMessages ==
    [c \in 1..MaxCompletions |-> {AssistantMessage(c, batch) : batch \in Batches(c)}]

UserMessage == [role |-> "user", id |-> 0, tool_calls |-> <<>>,
                tool_call_id |-> NoId, content |-> Str("user input")]

(***************************************************************************)
(* function_to_schema                                                      *)
(***************************************************************************)
\* param.annotation: the seven types of type_map, a class outside it, the
\* value None, a string, no annotation (inspect._empty), and a value that
\* cannot be hashed (a list literal)
Annotations == {"str", "int", "float", "bool", "list", "dict", "NoneType",
                "Agent", "None", "'int'", "empty", "unhashable"}

\* type_map
type_map ==
    [a \in {"str", "int", "float", "bool", "list", "dict", "NoneType"} |->
        CASE a = "str" -> "string"
          [] a = "int" -> "integer"
          [] a = "float" -> "number"
          [] a = "bool" -> "boolean"
          [] a = "list" -> "array"
          [] a = "dict" -> "object"
          [] OTHER -> "null"]

\* type_map.get(param.annotation, "string"): the key is hashed first
type_map_get(annotation) ==
    IF annotation = "unhashable" THEN [exc |-> "TypeError", type |-> ""]
    ELSE IF annotation \in DOMAIN type_map
    THEN [exc |-> "none", type |-> type_map[annotation]]
    ELSE [exc |-> "none", type |-> "string"]

Whitespace == {" ", "\n"}

\* str.strip() on a text given as its pieces, white space apart
RECURSIVE LStrip(_)
LStrip(q) == IF q # <<>> /\ Head(q) \in Whitespace THEN LStrip(Tail(q)) ELSE q

RECURSIVE RStrip(_)
RStrip(q) ==
    IF q # <<>> /\ q[Len(q)] \in Whitespace
    THEN RStrip(SubSeq(q, 1, Len(q) - 1)) ELSE q

Strip(q) == RStrip(LStrip(q))

\* func.__doc__ when the callable has no docstring
NoDoc == <<"None">>

\* (func.__doc__ or "").strip()
Description(doc) == IF doc = NoDoc \/ doc = <<>> THEN <<>> ELSE Strip(doc)

\* every parameter listed
RequiredAll(params) == [i \in DOMAIN params |-> params[i].name]

\* the names of the parameters without a default, in declaration order
RECURSIVE Required(_)
Required(params) ==
    IF params = <<>> THEN <<>>
    ELSE IF Head(params).has_default THEN Required(Tail(params))
    ELSE <<Head(params).name>> \o Required(Tail(params))

NoSchema == [type |-> "none"]

\* function_to_schema(func): the schema, or the exception raised
function_to_schema(func) ==
    IF ~func.introspectable
    THEN [exc |-> "ValueError", schema |-> NoSchema]
    ELSE IF \E i \in DOMAIN func.params : type_map_get(func.params[i].annotation).exc # "none"
    THEN [exc |-> "TypeError", schema |-> NoSchema]
    ELSE [exc |-> "none",
          schema |->
            [type |-> "function",
             function |->
                [name |-> func.name,
                 description |-> Description(func.doc),
                 parameters |->
                    [type |-> "object",
                     properties |->
                        [n \in {func.params[i].name : i \in DOMAIN func.params} |->
                            [type |-> type_map_get(
                                func.params[CHOOSE i \in DOMAIN func.params :
                                    func.params[i].name = n].annotation).type]],
                     required |-> Required(func.params)]]]]

\* a parameter of a def
Param(n, a, d) == [name |-> n, annotation |-> a, has_default |-> d]

\* the name of the i-th parameter
ParamName(i) == <<"p", i>>

ParamKinds == [annotation : Annotations, has_default : BOOLEAN]

Docs == {NoDoc, <<" ", "doc", " ", "text", "\n", " ">>}

\* the callables function_to_schema is applied to
InputFuncs ==
    {[name |-> "func", doc |-> d, introspectable |-> b,
      params |-> [i \in DOMAIN k |->
                    Param(ParamName(i), k[i].annotation, k[i].has_default)]] :
        d \in Docs, b \in BOOLEAN, k \in SeqsUpTo(ParamKinds, MaxParams)}

\* a docstring that opens and closes on lines of its own
DocOf(text) == <<"\n", " ", text, "\n", " ">>

\* the callables as function_to_schema sees them: __name__, __doc__ and
\* the signature; inspect.signature has no signature for the builtin max
FuncInfo(t) ==
    CASE t = "transfer_to_sales_agent" ->
            [name |-> FuncName(t), introspectable |-> TRUE, params |-> <<>>,
             doc |-> DocOf("Used for anything sales or buying related.")]
      [] t = "transfer_to_issues_and_repairs" ->
            [name |-> FuncName(t), introspectable |-> TRUE, params |-> <<>>,
             doc |-> DocOf("Used for issues, repairs, or refunds.")]
      [] t = "transfer_back_to_triage" ->
            [name |-> FuncName(t), introspectable |-> TRUE, params |-> <<>>,
             doc |-> DocOf("Call this if the user brings up a topic outside of your purview")]
      [] t = "escalate_to_human" ->
            [name |-> FuncName(t), introspectable |-> TRUE,
             params |-> <<Param("summary", "empty", FALSE)>>,
             doc |-> DocOf("Escalates the conversation to a human agent.")]
      [] t = "execute_order" ->
            [name |-> FuncName(t), introspectable |-> TRUE,
             params |-> <<Param("product", "empty", FALSE), Param("price", "int", FALSE)>>,
             doc |-> DocOf("Processes an order for a product at a given price.")]
      [] t = "look_up_item" ->
            [name |-> FuncName(t), introspectable |-> TRUE,
             params |-> <<Param("search_query", "empty", FALSE)>>,
             doc |-> DocOf("Finds an item ID based on a search query.")]
      [] t = "execute_refund" ->
            [name |-> FuncName(t), introspectable |-> TRUE,
             params |-> <<Param("item_id", "empty", FALSE), Param("reason", "empty", TRUE)>>,
             doc |-> DocOf("Processes a refund for a given item ID and reason.")]
      [] t = "sample_function" ->
            [name |-> FuncName(t), introspectable |-> TRUE,
             params |-> <<Param("param_1", "empty", FALSE), Param("param_2", "empty", FALSE),
                          Param("the_third_one", "int", FALSE),
                          Param("some_optional", "empty", TRUE)>>,
             doc |-> DocOf("This is my docstring. Call this function when you want.")]
      [] t = "sample_function_v1" ->
            [name |-> FuncName(t), introspectable |-> TRUE,
             params |-> <<Param("param_1", "empty", FALSE)>>,
             doc |-> NoDoc]
      [] OTHER ->
            [name |-> FuncName(t), introspectable |-> FALSE, params |-> <<>>,
             doc |-> <<"max(iterable, *[, default=obj, key=func]) -> value">>]

NoFunc == [name |-> "", doc |-> NoDoc, introspectable |-> FALSE, params |-> <<>>]

NoResult == [exc |-> "not called", schema |-> NoSchema]


(***************************************************************************)
(* run_full_turn and execute_tool_call                                     *)
(***************************************************************************)
Max(S) == CHOOSE x \in S : \A y \in S : y <= x

\* the earlier entry of a name kept
ToolsMapFirst(tool_list) ==
    [n \in {FuncName(tool_list[i]) : i \in DOMAIN tool_list} |->
        tool_list[CHOOSE i \in DOMAIN tool_list :
            /\ FuncName(tool_list[i]) = n
            /\ \A j \in DOMAIN tool_list : FuncName(tool_list[j]) = n => i <= j]]

\* {tool.__name__: tool for tool in current_agent.tools}: a later entry of
\* the list replaces an earlier one of the same name
ToolsMap(tool_list) ==
    [n \in {FuncName(tool_list[i]) : i \in DOMAIN tool_list} |->
        tool_list[Max({i \in DOMAIN tool_list : FuncName(tool_list[i]) = n})]]

\* the local name left bound to the caller's own list
list_copy_alias(ref) == ref

\* messages.copy(): the list object the local name is bound to afterwards
list_copy(ref) == "L1"

\* the name resolved before the arguments are decoded
execute_tool_call_lookup_first(tool_call, tools_map, agent_name) ==
    IF tool_call.name \notin DOMAIN tools_map
    THEN {[exc |-> "KeyError", invoked |-> "none", value |-> PyNone]}
    ELSE IF ~json_loads(tool_call.arguments).ok
    THEN {[exc |-> json_loads(tool_call.arguments).exc, invoked |-> "none",
           value |-> PyNone]}
    ELSE {[exc |-> o.exc, invoked |-> tools_map[tool_call.name], value |-> o.value] :
            o \in Invoke(tools_map[tool_call.name])}

\* the outcomes of execute_tool_call(tool_call, tools, agent_name): the
\* exception raised or the value returned, and the callable invoked, if any
execute_tool_call(tool_call, tools_map, agent_name) ==
    IF ~json_loads(tool_call.arguments).ok
    THEN {[exc |-> json_loads(tool_call.arguments).exc, invoked |-> "none",
           value |-> PyNone]}
    ELSE IF tool_call.name \notin DOMAIN tools_map
    THEN {[exc |-> "KeyError", invoked |-> "none", value |-> PyNone]}
    ELSE {[exc |-> o.exc, invoked |-> tools_map[tool_call.name], value |-> o.value] :
            o \in Invoke(tools_map[tool_call.name])}

\* the loop left as well on a message with a single tool call
LoopExitAtMostOne(m) == Len(m.tool_calls) <= 1

\* `if not message.tool_calls: break`
LoopExit(m) == Len(m.tool_calls) = 0

\* the handoff not applied
NextAgentKeep(result, cur) == cur

\* `if isinstance(result, Agent): current_agent = result`
NextAgent(result, cur) == IF result.kind = "Agent" THEN result.v ELSE cur

\* f"Transferred to {current_agent.name}. Adopt persona immediately.",
\* current_agent being the agent the tool returned
TransferNotice(a) == "Transferred to " \o Agents[a].name \o ". Adopt persona immediately."

\* the value stored as "content" of the tool message: the notice for an
\* Agent, else the value as the tool returned it
ResultContent(result) ==
    IF result.kind = "Agent" THEN Str(TransferNotice(result.v)) ELSE result

\* the tool message without the id of its request
ResultMessageNoId(tool_call, content) ==
    [role |-> "tool", id |-> 0, tool_calls |-> <<>>,
     tool_call_id |-> NoId, content |-> content]

\* result_message of lines 167-171
ResultMessage(tool_call, content) ==
    [role |-> "tool", id |-> 0, tool_calls |-> <<>>,
     tool_call_id |-> tool_call.id, content |-> content]

\* the whole list returned
SliceWhole(msgs, n) == msgs

\* the slice taken one position early
SliceOneEarly(msgs, n) == SubSeq(msgs, n, Len(msgs))

\* messages[num_init_messages:]
Slice(msgs, n) == SubSeq(msgs, n + 1, Len(msgs))

\* the agent the turn was started with handed back
ResponseOfStartAgent(a, msgs) == [agent |-> agent, messages |-> msgs]

Response(a, msgs) == [agent |-> a, messages |-> msgs]

\* {"role": "system", "content": current_agent.instructions}
SystemMessage(instructions) ==
    [role |-> "system", id |-> 0, tool_calls |-> <<>>,
     tool_call_id |-> NoId, content |-> Str(instructions)]

\* [function_to_schema(tool) for tool in current_agent.tools]: what each
\* derivation returns or raises
tool_schemas(tool_list) ==
    [i \in DOMAIN tool_list |-> function_to_schema(FuncInfo(tool_list[i]))]

\* the exception that leaves the list comprehension: that of the first
\* tool whose derivation raises
SchemaError(tool_list) ==
    LET failed == {i \in DOMAIN tool_list : tool_schemas(tool_list)[i].exc # "none"} IN
    IF failed = {} THEN "none"
    ELSE tool_schemas(tool_list)[CHOOSE i \in failed : \A j \in failed : i <= j].exc

\* lines 140-141 for each agent: the schemas of its tools, the exception
\* their derivation raises, and the lookup map
Registry ==
    [a \in AgentIds |->
        [schemas |-> [i \in DOMAIN Agents[a].tools |->
                        tool_schemas(Agents[a].tools)[i].schema],
         exc |-> SchemaError(Agents[a].tools),
         tools |-> ToolsMap(Agents[a].tools)]]

\* the empty list passed on as it is
OrNoneKeep(schemas) == [kind |-> "list", v |-> schemas]

\* `tool_schemas or None`
OrNone(schemas) == IF schemas = <<>> THEN PyNone ELSE [kind |-> "list", v |-> schemas]

\* the keyword arguments of client.chat.completions.create, lines 144-148
CompletionRequest(a, msgs) ==
    [model |-> Agents[a].model,
     messages |-> <<SystemMessage(Agents[a].instructions)>> \o msgs,
     tools |-> OrNone(Registry[a].schemas)]

NoRequest == [model |-> "", messages |-> <<>>, tools |-> PyNone]

\* the turn carried on to the next completion call
OnExceptionRetry(exc) == "AWAITING_COMPLETION"

\* neither execute_tool_call nor run_full_turn nor the main loop has a
\* try: an exception raised in a turn leaves all three
OnException(exc) == "ABORTED"

\* the message put in front
Prepend1(ref, m) == [lists EXCEPT ![ref] = <<m>> \o @]

Append1(ref, m) == [lists EXCEPT ![ref] = Append(@, m)]

\* the list replaced by the new messages
list_replace(old, new) == new

\* messages.extend(response.messages)
list_extend(old, new) == old \o new

(***************************************************************************)
(* run_full_turn and execute_tool_call of Agent_functions.py, called with  *)
(* the instructions and the tools of the agent and the same history, and   *)
(* given the same completions and the same tool results                    *)
(***************************************************************************)
\* tools_map = {tool.__name__: tool for tool in tools}
AF_ToolsMap(tool_list) ==
    [n \in {FuncName(tool_list[i]) : i \in DOMAIN tool_list} |->
        tool_list[Max({i \in DOMAIN tool_list : FuncName(tool_list[i]) = n})]]

\* execute_tool_call(tool_call, tools_map)
AF_execute_tool_call(tool_call, tools_map) ==
    IF ~json_loads(tool_call.arguments).ok
    THEN {[exc |-> json_loads(tool_call.arguments).exc, invoked |-> "none",
           value |-> PyNone]}
    ELSE IF tool_call.name \notin DOMAIN tools_map
    THEN {[exc |-> "KeyError", invoked |-> "none", value |-> PyNone]}
    ELSE {[exc |-> o.exc, invoked |-> tools_map[tool_call.name], value |-> o.value] :
            o \in Invoke(tools_map[tool_call.name])}

\* `if not message.tool_calls: break`
AF_LoopExit(m) == Len(m.tool_calls) = 0

\* result_message: the result is the content, whatever it is
AF_ResultMessage(tool_call, result) ==
    [role |-> "tool", id |-> 0, tool_calls |-> <<>>,
     tool_call_id |-> tool_call.id, content |-> result]

\* the slice taken one position late
AF_SliceOneLate(msgs, n) == SubSeq(msgs, n + 2, Len(msgs))

\* messages[num_init_messages:]
AF_Slice(msgs, n) == SubSeq(msgs, n + 1, Len(msgs))

\* the run is not followed
AF_None ==
    [pc |-> "none", system_message |-> "", tools |-> <<>>, messages |-> <<>>,
     num_init_messages |-> 0, tools_map |-> <<>>, message |-> NoMessage, idx |-> 0,
     calls_log |-> <<>>, exc |-> "none", returned |-> <<>>]

\* run_full_turn(system_message, tools, messages) entered
AF_Enter(system_message, tool_list, msgs) ==
    [AF_None EXCEPT !.pc = "AWAITING_COMPLETION", !.system_message = system_message,
                    !.tools = tool_list, !.messages = msgs,
                    !.num_init_messages = Len(msgs)]

\* a schema cannot be derived, or the endpoint fails
AF_Raise(run, exc) == [run EXCEPT !.pc = "ABORTED", !.exc = exc]

\* one pass of the while loop up to the break, on the completion m
AF_Complete(run, m) ==
    IF SchemaError(run.tools) # "none" THEN AF_Raise(run, SchemaError(run.tools))
    ELSE LET msgs == Append(run.messages, m) IN
         IF AF_LoopExit(m)
         THEN [run EXCEPT !.pc = "DONE", !.tools_map = AF_ToolsMap(run.tools),
                          !.messages = msgs, !.message = m, !.idx = 0,
                          !.returned = AF_Slice(msgs, run.num_init_messages)]
         ELSE [run EXCEPT !.pc = "HAS_TOOL_CALLS", !.tools_map = AF_ToolsMap(run.tools),
                          !.messages = msgs, !.message = m, !.idx = 1]

\* the outcomes open to the call at hand: the callable the other driver
\* has just invoked did what it did there
AF_Outcomes(run, o) ==
    {o2 \in AF_execute_tool_call(run.message.tool_calls[run.idx], run.tools_map) :
        (o2.invoked # "none" /\ o2.invoked = o.invoked) => o2 = o}

\* one pass of the for loop, the call ending as o2; a run in which a tool
\* returns an Agent is followed no further
AF_Dispatch(run, o2) ==
    LET tool_call == run.message.tool_calls[run.idx]
        logged == IF o2.invoked = "none" THEN run.calls_log
                  ELSE Append(run.calls_log,
                              [id |-> tool_call.id, name |-> tool_call.name,
                               tool |-> o2.invoked, exc |-> o2.exc, value |-> o2.value])
    IN  IF o2.exc # "none"
        THEN [run EXCEPT !.pc = "ABORTED", !.exc = o2.exc, !.calls_log = logged]
        ELSE IF o2.value.kind = "Agent" THEN AF_None
        ELSE [run EXCEPT !.messages = Append(@, AF_ResultMessage(tool_call, o2.value)),
                         !.calls_log = logged,
                         !.idx = @ + 1,
                         !.pc = IF run.idx = Len(run.message.tool_calls)
                                THEN "AWAITING_COMPLETION" ELSE "HAS_TOOL_CALLS"]

Init ==
    /\ agent \in StartAgents
    /\ lists = [r \in {"L0", "L1"} |-> <<>>]
    /\ fn_messages = "L0"
    /\ current_agent = agent
    /\ num_init_messages = 0
    /\ tools = <<>>
    /\ message = NoMessage
    /\ idx = 0
    /\ pc = "idle"
    /\ response = NoResponse
    /\ error = NoError
    /\ completions = 0
    /\ calls_log = <<>>
    /\ h_entry = <<>>
    /\ h_appended = <<>>
    /\ h_turn_completions = 0
    /\ request = NoRequest
    /\ af = AF_None
    /\ fs_func = NoFunc
    /\ fs_result = NoResult

\* main loop lines 327-331 and run_full_turn lines 134-136: the user's
\* message is appended and run_full_turn is entered
UserInput ==
    /\ pc = "idle"
    /\ completions < MaxCompletions
    /\ LET caller == Append(lists["L0"], UserMessage) IN
        /\ fn_messages' = list_copy("L0")
        /\ lists' = [r \in {"L0", "L1"} |-> IF r = "L0" THEN caller
                                            ELSE IF r = list_copy("L0") THEN caller
                                            ELSE lists[r]]
        /\ num_init_messages' = Len(caller)
        /\ h_entry' = caller
        /\ af' = AF_Enter(Agents[agent].instructions, Agents[agent].tools, caller)
    /\ current_agent' = agent
    /\ pc' = "AWAITING_COMPLETION"
    /\ calls_log' = <<>>
    /\ h_appended' = <<>>
    /\ h_turn_completions' = 0
    /\ request' = NoRequest
    /\ UNCHANGED <<agent, tools, message, idx, response, error, completions,
                   fs_func, fs_result>>

\* lines 139-156 and 175: one pass of the while loop up to the test of
\* message.tool_calls, and the return when the loop is left
Complete ==
    /\ pc = "AWAITING_COMPLETION"
    /\ completions < MaxCompletions
    /\ Registry[current_agent].exc = "none"
    /\ request' = CompletionRequest(current_agent, lists[fn_messages])
    /\ message' \in AssistantMessages[completions + 1]
    /\ tools' = Registry[current_agent].tools
    /\ lists' = Append1(fn_messages, message')
    /\ h_appended' = Append(h_appended, message')
    /\ IF LoopExit(message')
       THEN /\ pc' = "DONE"
            /\ response' = Response(current_agent,
                                    Slice(lists'[fn_messages], num_init_messages))
            /\ idx' = 0
       ELSE /\ pc' = "HAS_TOOL_CALLS"
            /\ response' = response
            /\ idx' = 1
    /\ completions' = completions + 1
    /\ h_turn_completions' = h_turn_completions + 1
    /\ af' = IF af.pc = "AWAITING_COMPLETION" THEN AF_Complete(af, message') ELSE af
    /\ UNCHANGED <<agent, fn_messages, current_agent, num_init_messages, error,
                   calls_log, h_entry, fs_func, fs_result>>

\* line 140 or line 144 raises: a schema cannot be derived, before the
\* registry is built and the endpoint called, or the call to the endpoint
\* fails; the exception leaves run_full_turn and the main loop
CompletionFails ==
    /\ pc = "AWAITING_COMPLETION"
    /\ completions < MaxCompletions
    /\ LET exc == Registry[current_agent].exc IN
       IF exc # "none"
       THEN /\ pc' = OnException(exc)
            /\ error' = [kind |-> exc, id |-> NoId, name |-> ""]
            /\ af' = IF af.pc = "AWAITING_COMPLETION" /\ SchemaError(af.tools) # "none"
                     THEN AF_Raise(af, SchemaError(af.tools)) ELSE af
            /\ UNCHANGED <<tools, request, completions, h_turn_completions>>
       ELSE /\ tools' = Registry[current_agent].tools
            /\ request' = CompletionRequest(current_agent, lists[fn_messages])
            /\ pc' = OnException("CompletionError")
            /\ error' = [kind |-> "CompletionError", id |-> NoId, name |-> ""]
            /\ completions' = completions + 1
            /\ h_turn_completions' = h_turn_completions + 1
            /\ af' = IF af.pc # "AWAITING_COMPLETION" THEN af
                     ELSE IF SchemaError(af.tools) # "none"
                     THEN AF_Raise(af, SchemaError(af.tools))
                     ELSE AF_Raise(af, "CompletionError")
    /\ UNCHANGED <<agent, lists, fn_messages, current_agent, num_init_messages,
                   message, idx, response, calls_log, h_entry, h_appended,
                   fs_func, fs_result>>

\* lines 159-172: one pass of the for loop over message.tool_calls
Dispatch ==
    /\ pc = "HAS_TOOL_CALLS"
    /\ idx \in 1..Len(message.tool_calls)
    /\ LET tool_call == message.tool_calls[idx] IN
       \E o \in execute_tool_call(tool_call, tools, Agents[current_agent].name) :
        /\ calls_log' = IF o.invoked = "none" THEN calls_log
                        ELSE Append(calls_log,
                                    [id |-> tool_call.id, name |-> tool_call.name,
                                     tool |-> o.invoked, agent |-> current_agent,
                                     exc |-> o.exc, value |-> o.value])
        /\ IF af.pc = "HAS_TOOL_CALLS"
           THEN \E o2 \in AF_Outcomes(af, o) : af' = AF_Dispatch(af, o2)
           ELSE af' = af
        /\ IF o.exc # "none"
           THEN /\ pc' = OnException(o.exc)
                /\ error' = [kind |-> o.exc, id |-> tool_call.id, name |-> tool_call.name]
                /\ UNCHANGED <<lists, current_agent, idx, h_appended>>
           ELSE LET rm == ResultMessage(tool_call, ResultContent(o.value)) IN
                /\ current_agent' = NextAgent(o.value, current_agent)
                /\ lists' = Append1(fn_messages, rm)
                /\ h_appended' = Append(h_appended, rm)
                /\ idx' = idx + 1
                /\ pc' = IF idx = Len(message.tool_calls)
                         THEN "AWAITING_COMPLETION" ELSE "HAS_TOOL_CALLS"
                /\ error' = error
    /\ UNCHANGED <<agent, fn_messages, num_init_messages, tools, message, response,
                   completions, h_entry, h_turn_completions, request,
                   fs_func, fs_result>>

\* main loop lines 331-333: the Response is received
Receive ==
    /\ pc = "DONE"
    /\ agent' = response.agent
    /\ lists' = [lists EXCEPT !["L0"] = list_extend(@, response.messages)]
    /\ pc' = "idle"
    /\ UNCHANGED <<fn_messages, current_agent, num_init_messages, tools, message, idx,
                   response, error, completions, calls_log, h_entry, h_appended,
                   h_turn_completions, request, af, fs_func, fs_result>>

Next == UserInput \/ Complete \/ CompletionFails \/ Dispatch \/ Receive

Spec == Init /\ [][Next]_vars

\* run_full_turn is synchronous code: once entered it keeps running
LiveSpec == Spec /\ WF_vars(Complete \/ CompletionFails \/ Dispatch)

\* the program as it is run: lines 322-323 and the main loop
MainInit == Init /\ agent = "triage_agent"

MainSpec == MainInit /\ [][Next]_vars

\* function_to_schema applied to a callable: `schema =
\* function_to_schema(sample_function)` of Agent_functions.py line 70, for
\* every callable of InputFuncs
SchemaInit ==
    /\ agent = "triage_agent"
    /\ lists = [r \in {"L0", "L1"} |-> <<>>]
    /\ fn_messages = "L0"
    /\ current_agent = agent
    /\ num_init_messages = 0
    /\ tools = <<>>
    /\ message = NoMessage
    /\ idx = 0
    /\ pc = "idle"
    /\ response = NoResponse
    /\ error = NoError
    /\ completions = 0
    /\ calls_log = <<>>
    /\ h_entry = <<>>
    /\ h_appended = <<>>
    /\ h_turn_completions = 0
    /\ request = NoRequest
    /\ af = AF_None
    /\ fs_func \in InputFuncs
    /\ fs_result = NoResult

Derive ==
    /\ fs_result = NoResult
    /\ fs_func # NoFunc
    /\ fs_result' = function_to_schema(fs_func)
    /\ UNCHANGED <<fs_func, turn_vars>>

SchemaNext == Derive

SchemaSpec == SchemaInit /\ [][SchemaNext]_vars

(***************************************************************************)
(* Properties                                                              *)
(***************************************************************************)
\* the list run_full_turn appends to
Local == lists[fn_messages]

Range(q) == {q[i] : i \in DOMAIN q}

\* the names in the registry of agent a
RegistryNames(a) == DOMAIN ToolsMap(Agents[a].tools)

\* the tool messages of a list that answer the request id
ToolMessagesFor(q, id) == {i \in DOMAIN q : q[i].role = "tool" /\ q[i].tool_call_id = id}

\* the entries of calls_log for the request id
LogFor(id) == {i \in DOMAIN calls_log : calls_log[i].id = id}

\* the handoffs of the current turn: the invocations that returned an Agent
Handoffs == {i \in DOMAIN calls_log :
                calls_log[i].exc = "none" /\ calls_log[i].value.kind = "Agent"}

\* the second request of the current message has been dispatched
SecondDispatched ==
    /\ Len(message.tool_calls) >= 2
    /\ \/ idx > 2
       \/ pc = "AWAITING_COMPLETION" /\ idx > Len(message.tool_calls)
       \/ pc = "ABORTED" /\ error.id = message.tool_calls[2].id

\* the current message carries two calls, the first returned agent b, and
\* the second names, with well-formed arguments, a tool only b declares
MidBatchCase(b) ==
    /\ Len(message.tool_calls) = 2
    /\ \E i \in LogFor(message.tool_calls[1].id) :
        /\ calls_log[i].exc = "none"
        /\ calls_log[i].value = AgentValue(b)
        /\ message.tool_calls[2].name \in RegistryNames(b)
        /\ message.tool_calls[2].name \notin RegistryNames(calls_log[i].agent)
    /\ json_loads(message.tool_calls[2].arguments).ok
    /\ SecondDispatched

\* C1: when one assistant message carries two tool calls, the first of which
\* hands off to agent B and the second of which names a tool only B
\* declares, the second call is resolved against B's tools: B's callable of
\* that name is invoked and the call does not end as an unknown tool.
C1_MidBatchHandoff ==
    \A b \in AgentIds :
        MidBatchCase(b) =>
            /\ ~(pc = "ABORTED" /\ error.kind = "KeyError")
            /\ \E i \in LogFor(message.tool_calls[2].id) :
                calls_log[i].tool = ToolsMap(Agents[b].tools)[message.tool_calls[2].name]

\* C2 as stated: after an abort the history the caller holds contains every
\* assistant and tool message the turn appended before the failure.
C2_AbortKeepsAppended ==
    pc = "ABORTED" => \A i \in DOMAIN h_appended : h_appended[i] \in Range(lists["L0"])

\* C2, amended: after an abort the history the caller holds is the history
\* it passed to run_full_turn (ending with the new user message), and holds
\* none of the messages the turn appended before the failure.
C2_AbortLeavesEntryHistory ==
    pc = "ABORTED" =>
        /\ lists["L0"] = h_entry
        /\ Len(lists["L0"]) = num_init_messages
        /\ lists["L0"][Len(lists["L0"])] = UserMessage
        /\ \A i \in DOMAIN h_appended : h_appended[i] \notin Range(lists["L0"])

C2_Witness ==
    /\ pc = "ABORTED"
    /\ Len(h_appended) >= 2
    /\ h_appended[Len(h_appended)].role = "tool"

\* every handoff of the turn has exactly one tool message, which carries the
\* id of the request and the transfer notice naming the target as content
HandoffMessagesOk ==
    \A i \in Handoffs :
        /\ Cardinality(ToolMessagesFor(Local, calls_log[i].id)) = 1
        /\ \A j \in ToolMessagesFor(Local, calls_log[i].id) :
            /\ Local[j].content.kind = "str"
            /\ Local[j].content.v =
                "Transferred to " \o Agents[calls_log[i].value.v].name
                    \o ". Adopt persona immediately."
            /\ Local[j] \in Range(h_appended)

\* every invocation of the turn was resolved in the registry of the agent
\* active at its dispatch
ResolvedByActiveAgent ==
    \A i \in DOMAIN calls_log : calls_log[i].name \in RegistryNames(calls_log[i].agent)

\* C3 as stated: the returned agent equals the Agent of every tool call of
\* the turn that returned one, and each such call has the notice as content.
\* Stated for the turns in which every call was resolved by the agent
\* active at its dispatch, where it fails as well.
C3_ReturnedAgentIsEveryHandoff ==
    /\ (pc = "DONE" /\ ResolvedByActiveAgent) =>
            \A i \in Handoffs : response.agent = calls_log[i].value.v
    /\ HandoffMessagesOk

\* C3, amended: when tool calls of the turn returned Agent values, the
\* returned agent is the Agent returned by the last of them; the tool
\* message of each such call carries the request's tool_call_id and has the
\* transfer notice naming its target as content, never the Agent value.
C3_ReturnedAgentIsLastHandoff ==
    /\ (pc = "DONE" /\ Handoffs # {}) =>
            response.agent = calls_log[Max(Handoffs)].value.v
    /\ HandoffMessagesOk

C3_Witness ==
    /\ pc = "DONE"
    /\ Cardinality(Handoffs) >= 2
    /\ ResolvedByActiveAgent
    /\ response.agent = calls_log[Max(Handoffs)].value.v
    /\ \E i \in Handoffs : response.agent # calls_log[i].value.v

\* C4: a tool name that is not in the registry of the agent active when the
\* request is dispatched is never invoked; the turn so aborted has no tool
\* message and no invocation for the request, and none for a later request
\* of the batch.
C4_UnknownToolNotInvoked ==
    /\ ResolvedByActiveAgent
    /\ (pc = "ABORTED" /\ error.kind = "KeyError") =>
            /\ error.name \notin RegistryNames(current_agent)
            /\ \A k \in idx..Len(message.tool_calls) :
                /\ ToolMessagesFor(Local, message.tool_calls[k].id) = {}
                /\ LogFor(message.tool_calls[k].id) = {}

\* C5: a request whose arguments are malformed aborts the turn with the
\* decode failure, whether or not its name is in the registry; no callable
\* is invoked and no message is appended for it.
C5_MalformedArgumentsAbort ==
    [][(pc = "HAS_TOOL_CALLS" /\ idx \in 1..Len(message.tool_calls)
            /\ ~json_loads(message.tool_calls[idx].arguments).ok)
        => /\ pc' = "ABORTED"
           /\ error'.kind = "JSONDecodeError"
           /\ error'.id = message.tool_calls[idx].id
           /\ calls_log' = calls_log
           /\ lists' = lists
           /\ current_agent' = current_agent]_vars

C5_Witness ==
    /\ pc = "ABORTED"
    /\ error.kind = "JSONDecodeError"
    /\ error.name \notin DOMAIN tools
    /\ idx = 2
    /\ LogFor(error.id) = {}
    /\ ToolMessagesFor(Local, error.id) = {}

\* the position of the last assistant message of a list
LastAssistant(q) == Max({i \in DOMAIN q : q[i].role = "assistant"})

\* the tool calls of the last assistant message the turn appended
LastBatch == Local[LastAssistant(Local)].tool_calls

\* the messages appended after that assistant message
BatchTail == SubSeq(Local, LastAssistant(Local) + 1, Len(Local))

\* the invocations made for the requests of that assistant message
BatchLog == SelectSeq(calls_log, LAMBDA e : e.id[1] = Local[LastAssistant(Local)].id)

\* the tool messages of the last batch answer its first requests, in order,
\* and the callables were invoked in that order, one step ahead at most
BatchInOrder ==
    h_appended # <<>> =>
        /\ Len(BatchTail) <= Len(LastBatch)
        /\ \A i \in 1..Len(BatchTail) :
            /\ BatchTail[i].role = "tool"
            /\ BatchTail[i].tool_call_id = LastBatch[i].id
        /\ \A k \in 1..Len(BatchLog) : BatchLog[k].id = LastBatch[k].id
        /\ \/ Len(BatchLog) = Len(BatchTail)
           \/ /\ Len(BatchLog) = Len(BatchTail) + 1
              /\ pc = "ABORTED"
              /\ BatchLog[Len(BatchLog)].exc # "none"

\* the driver is through with the last batch: it goes on to the next
\* completion, or a dispatch of the batch has failed
BatchOver ==
    /\ h_appended # <<>>
    /\ \/ pc = "AWAITING_COMPLETION"
       \/ pc = "ABORTED" /\ error.id # NoId

\* C6 as stated: for an assistant message carrying N tool calls exactly N
\* tool messages are appended, in request order with matching ids, the
\* tools being invoked one after another in that order.
C6_ExactlyNToolMessages ==
    /\ BatchInOrder
    /\ BatchOver => Len(BatchTail) = Len(LastBatch)

\* C6, amended: the tools of a batch are invoked one after another in the
\* listed order and the i-th tool message carries the id of the i-th
\* request; exactly N tool messages are appended when no dispatch of the
\* batch fails, and exactly k-1 when the dispatch of the k-th request fails.
C6_ToolMessagesInOrder ==
    /\ BatchInOrder
    /\ (pc = "AWAITING_COMPLETION" /\ h_appended # <<>>) =>
            /\ Len(BatchTail) = Len(LastBatch)
            /\ LastBatch = message.tool_calls
    /\ (pc = "ABORTED" /\ error.id # NoId) =>
            /\ Len(BatchTail) = error.id[2] - 1
            /\ LastBatch[error.id[2]].id = error.id

C6_Witness ==
    /\ pc = "AWAITING_COMPLETION"
    /\ h_appended # <<>>
    /\ Len(LastBatch) = 2
    /\ Len(BatchTail) = 2
    /\ BatchTail[1].tool_call_id # BatchTail[2].tool_call_id
    /\ Len(BatchLog) = 2

\* C7: from the call of run_full_turn on, through completion or abort, the
\* caller's list is what it was at the call; the messages returned are
\* exactly those appended in the turn, the elements of the driver's copy
\* from position n on, and none of the caller's n messages.
C7_CopyOnWrite ==
    /\ pc # "idle" =>
            /\ lists["L0"] = h_entry
            /\ Len(h_entry) = num_init_messages
    /\ pc = "DONE" =>
            /\ response.messages = h_appended
            /\ Len(Local) = num_init_messages + Len(response.messages)
            /\ \A i \in 1..Len(response.messages) :
                response.messages[i] = Local[num_init_messages + i]
            /\ \A i \in 1..num_init_messages : h_entry[i] \notin Range(response.messages)

C7_Witness ==
    /\ pc = "DONE"
    /\ num_init_messages = 3
    /\ Len(response.messages) = 3
    /\ lists["L0"] = h_entry

\* C8: a turn whose first assistant message requests no tool call returns
\* that one message and the agent it was started with, after one completion
\* call and no tool invocation.
C8_NoToolCallTurn ==
    (pc = "DONE" /\ Len(h_appended[1].tool_calls) = 0) =>
        /\ Len(response.messages) = 1
        /\ response.messages[1] = h_appended[1]
        /\ response.messages[1].role = "assistant"
        /\ response.agent = agent
        /\ h_turn_completions = 1
        /\ calls_log = <<>>

C8_Witness ==
    /\ pc = "DONE"
    /\ Len(h_appended[1].tool_calls) = 0
    /\ num_init_messages = 3
    /\ agent = "plain_agent"

\* the assistant messages the turn has appended
AssistantsAppended == {i \in DOMAIN h_appended : h_appended[i].role = "assistant"}

\* the loop is left at the first assistant message without tool calls, and
\* only there
LoopLeftAtFirstEmpty ==
    /\ pc = "DONE" =>
            /\ h_appended # <<>>
            /\ h_appended[Len(h_appended)].role = "assistant"
            /\ \A i \in AssistantsAppended :
                (Len(h_appended[i].tool_calls) = 0) <=> (i = Len(h_appended))
    /\ pc \in {"AWAITING_COMPLETION", "HAS_TOOL_CALLS"} =>
            \A i \in AssistantsAppended : Len(h_appended[i].tool_calls) > 0

\* C9: run_full_turn returns at, and only at, the first assistant message
\* without tool calls; given an endpoint that eventually returns such a
\* message, every turn that is started returns or fails.
C9_TurnTerminates ==
    /\ []LoopLeftAtFirstEmpty
    /\ (pc = "AWAITING_COMPLETION") ~> (pc \in {"DONE", "ABORTED"})

C9_Witness ==
    /\ pc = "DONE"
    /\ h_turn_completions = 3
    /\ Cardinality(AssistantsAppended) = 3

\* str(value)
PyStr(value) == IF value.kind = "str" THEN value ELSE Str(value.v)

\* C10: the tool message of a call that returned a non-Agent value has the
\* value coerced to text as content, so every tool message carries text.
C10_ToolContentIsText ==
    /\ \A i \in DOMAIN calls_log :
        (calls_log[i].exc = "none" /\ calls_log[i].value.kind # "Agent") =>
            \A j \in ToolMessagesFor(Local, calls_log[i].id) :
                Local[j].content = PyStr(calls_log[i].value)
    /\ \A j \in DOMAIN Local : Local[j].role = "tool" => Local[j].content.kind = "str"

\* the turn has failed and nothing follows the failure
FailureEndsTurn ==
    /\ error.kind # "none" => pc = "ABORTED"
    /\ \A i \in DOMAIN calls_log :
        calls_log[i].exc # "none" =>
            /\ i = Len(calls_log)
            /\ error.kind = calls_log[i].exc
            /\ error.id = calls_log[i].id

NothingAfterFailure ==
    error.kind # "none" =>
        /\ completions' = completions
        /\ calls_log' = calls_log
        /\ lists' = lists
        /\ error' = error

\* C11: an exception raised by a tool, by the lookup, by the decoding, by
\* the endpoint or by the derivation of a schema ends the turn as a failure:
\* the exception of a raising tool is the failure of the turn and that call
\* is the last one made, and once a turn has failed no completion call and
\* no tool call is made any more
C11_FailuresPropagate == []FailureEndsTurn /\ [][NothingAfterFailure]_vars

\* escalate_to_human has ended the process while a later request of the
\* same assistant message was still waiting
C11_Witness ==
    /\ pc = "ABORTED"
    /\ error.kind = "SystemExit"
    /\ calls_log # <<>>
    /\ calls_log[Len(calls_log)].tool = "escalate_to_human"
    /\ idx < Len(message.tool_calls)

\* the schema function_to_schema returned for fs_func
Derived == fs_result.schema.function

\* the position of the parameter of that name in the signature
ParamIndex(n) == CHOOSE i \in DOMAIN fs_func.params : fs_func.params[i].name = n

\* C12: in a schema function_to_schema returns, a parameter is in
\* `required` if and only if it has no default, `required` holds keys of
\* `properties` only, and it lists them once each in declaration order
C12_RequiredIffNoDefault ==
    fs_result.exc = "none" =>
        LET required == Derived.parameters.required
            properties == Derived.parameters.properties IN
        /\ \A i \in DOMAIN fs_func.params :
            (fs_func.params[i].name \in Range(required)) <=> ~fs_func.params[i].has_default
        /\ Range(required) \subseteq DOMAIN properties
        /\ DOMAIN properties = {fs_func.params[i].name : i \in DOMAIN fs_func.params}
        /\ \A j, k \in DOMAIN required :
            j < k => ParamIndex(required[j]) < ParamIndex(required[k])

\* a schema derived for a callable whose first parameter has a default and
\* whose second has none
C12_Witness ==
    /\ fs_result.exc = "none"
    /\ Len(fs_func.params) = 2
    /\ fs_func.params[1].has_default
    /\ ~fs_func.params[2].has_default
    /\ Derived.parameters.required = <<fs_func.params[2].name>>

\* the JSON type the annotation stands for
ExpectedType(annotation) ==
    CASE annotation = "str" -> "string"
      [] annotation = "int" -> "integer"
      [] annotation = "float" -> "number"
      [] annotation = "bool" -> "boolean"
      [] annotation = "list" -> "array"
      [] annotation = "dict" -> "object"
      [] annotation = "NoneType" -> "null"
      [] OTHER -> "string"

\* C13: function_to_schema fails on the callables without a signature and
\* on no other, and in the schema of every other callable each parameter
\* has the type of its annotation, "string" for an annotation outside
\* type_map and for a missing one
C13_TypeMappingTotal ==
    fs_result # NoResult =>
        IF fs_func.introspectable
        THEN /\ fs_result.exc = "none"
             /\ \A i \in DOMAIN fs_func.params :
                    Derived.parameters.properties[fs_func.params[i].name].type
                        = ExpectedType(fs_func.params[i].annotation)
        ELSE fs_result.exc = "ValueError"

\* the agent the turn is at: the target of its last handoff, the agent it
\* was started with when there was none
ActiveAgent == IF Handoffs = {} THEN agent ELSE calls_log[Max(Handoffs)].value.v

Front(q) == SubSeq(q, 1, Len(q) - 1)

\* the last completion call was made for agent a on the history given
RequestReflects(a, history) ==
    /\ request.model = Agents[a].model
    /\ Len(request.messages) = Len(history) + 1
    /\ request.messages[1].role = "system"
    /\ request.messages[1].content = Str(Agents[a].instructions)
    /\ Tail(request.messages) = history
    /\ IF Agents[a].tools = <<>>
       THEN request.tools = PyNone
       ELSE /\ request.tools.kind = "list"
            /\ Len(request.tools.v) = Len(Agents[a].tools)
            /\ \A i \in DOMAIN Agents[a].tools :
                /\ request.tools.v[i].type = "function"
                /\ request.tools.v[i].function.name = FuncName(Agents[a].tools[i])

\* the completion call has just returned or failed
JustCalled ==
    \/ pc = "DONE"
    \/ pc = "HAS_TOOL_CALLS" /\ idx = 1
    \/ pc = "ABORTED" /\ error.kind = "CompletionError"

\* C15: every completion call carries the model of the agent active at
\* that moment, one system message with that agent's instructions followed
\* by the history passed in and everything the turn appended before the
\* call, and one schema per tool of that agent, None when it has no tool;
\* no list of the caller or of the driver and no Response ever holds a
\* system message
C15_RequestOfActiveAgent ==
    /\ JustCalled =>
            RequestReflects(ActiveAgent,
                            h_entry \o (IF pc = "ABORTED" THEN h_appended
                                        ELSE Front(h_appended)))
    /\ \A m \in Range(lists["L0"]) \cup Range(lists["L1"]) \cup Range(response.messages) :
            m.role # "system"

\* the first completion call after a handoff to another agent has returned
C15_Witness ==
    /\ pc = "DONE"
    /\ Handoffs # {}
    /\ ActiveAgent # agent
    /\ Agents[ActiveAgent].instructions # Agents[agent].instructions
    /\ request.messages[1].content = Str(Agents[ActiveAgent].instructions)
    /\ Len(request.messages) >= 4

\* the tool list of agent a names two callables alike
HasDuplicates(a) ==
    \E i, j \in DOMAIN Agents[a].tools :
        i < j /\ FuncName(Agents[a].tools[i]) = FuncName(Agents[a].tools[j])

\* the callables of agent a that a later one of the same name shadows
Shadowed(a) ==
    {Agents[a].tools[i] : i \in {i \in DOMAIN Agents[a].tools :
        \E j \in DOMAIN Agents[a].tools :
            i < j /\ FuncName(Agents[a].tools[i]) = FuncName(Agents[a].tools[j])}}

\* C16: in a turn of an agent whose tool list holds two callables of one
\* name, the registry is built without an error, it maps the name to the
\* later callable, the earlier one is never invoked, and the completion
\* call carries one schema per declared tool, more than the registry has
\* names
C16_LaterShadowsEarlier ==
    \A a \in AgentIds :
        (HasDuplicates(a) /\ current_agent = a /\ Handoffs = {} /\ request # NoRequest) =>
            /\ error.kind \notin {"ValueError", "TypeError"}
            /\ \A n \in DOMAIN tools : tools[n] \notin Shadowed(a)
            /\ \A i \in DOMAIN Agents[a].tools :
                    Agents[a].tools[i] \notin Shadowed(a) =>
                        tools[FuncName(Agents[a].tools[i])] = Agents[a].tools[i]
            /\ \A k \in DOMAIN calls_log : calls_log[k].tool \notin Shadowed(a)
            /\ request.tools.kind = "list"
            /\ Len(request.tools.v) = Len(Agents[a].tools)
            /\ Len(request.tools.v) > Cardinality(DOMAIN tools)

\* the name two callables of the agent share was requested and the later
\* of the two was invoked
C16_Witness ==
    /\ HasDuplicates(current_agent)
    /\ \E k \in DOMAIN calls_log :
        /\ calls_log[k].tool = "sample_function"
        /\ calls_log[k].name = FuncName("sample_function_v1")
        /\ calls_log[k].value = PyNone
    /\ Len(request.tools.v) = 2
    /\ Cardinality(DOMAIN tools) = 1

\* the messages the turn has appended to its list
Appended == SubSeq(Local, num_init_messages + 1, Len(Local))

\* the positions of the assistant messages among them
AssistantAt == {i \in DOMAIN Appended : Appended[i].role = "assistant"}

\* the last position of the block that starts at assistant position i
BlockEnd(i) ==
    IF \E k \in AssistantAt : k > i
    THEN (CHOOSE k \in AssistantAt : k > i /\ \A l \in AssistantAt : l > i => k <= l) - 1
    ELSE Len(Appended)

\* the messages after assistant position i, up to the end of its block,
\* are tool messages answering the leading requests of it, in order
BlockAnswersPrefix(i) ==
    /\ BlockEnd(i) - i <= Len(Appended[i].tool_calls)
    /\ \A j \in 1..(BlockEnd(i) - i) :
        /\ Appended[i + j].role = "tool"
        /\ Appended[i + j].tool_call_id = Appended[i].tool_calls[j].id

BlockComplete(i) == BlockEnd(i) - i = Len(Appended[i].tool_calls)

BlocksStartWithAssistant ==
    /\ \A i \in DOMAIN Appended : Appended[i].role \in {"assistant", "tool"}
    /\ Appended # <<>> => Appended[1].role = "assistant"

ReturnedShape ==
    pc = "DONE" =>
        /\ response.messages = Appended
        /\ Appended # <<>>
        /\ Appended[1].role = "assistant"
        /\ Appended[Len(Appended)].role = "assistant"
        /\ Appended[Len(Appended)].tool_calls = <<>>

\* C17 as stated: in every state the appended messages are blocks of one
\* assistant message followed by exactly one tool message per tool call of
\* it, in request order and with the ids of the requests.
C17_BlocksCompleteInEveryState ==
    /\ BlocksStartWithAssistant
    /\ \A i \in AssistantAt : BlockAnswersPrefix(i) /\ BlockComplete(i)
    /\ ReturnedShape

\* C17, amended: in every state the appended messages are blocks of one
\* assistant message followed by tool messages that answer, in request
\* order and with the ids of the requests, the leading tool calls of that
\* assistant message and of no other; every block but the last answers all
\* of them, and so does the last one whenever the driver is about to call
\* the endpoint or has returned; the messages returned start with an
\* assistant message and end with one that has no tool calls.
C17_BlocksCompleteBetweenBatches ==
    /\ BlocksStartWithAssistant
    /\ \A i \in AssistantAt :
        /\ BlockAnswersPrefix(i)
        /\ (BlockEnd(i) < Len(Appended) \/ pc \in {"AWAITING_COMPLETION", "DONE", "idle"})
                => BlockComplete(i)
    /\ ReturnedShape

\* a turn has returned two batches of two answered calls each and the
\* closing assistant message
C17_Witness ==
    /\ pc = "DONE"
    /\ Cardinality(AssistantAt) = 3
    /\ Len(Appended) = 7

\* a step changes the active agent only by entering a turn or by a tool
\* call that returned that agent
AgentChangesByHandoffOnly ==
    current_agent' # current_agent =>
        \/ pc = "idle" /\ current_agent' = agent
        \/ /\ pc = "HAS_TOOL_CALLS"
           /\ Len(calls_log') = Len(calls_log) + 1
           /\ calls_log'[Len(calls_log')].value = AgentValue(current_agent')

\* C18: at every point of a turn the active agent is the target of the
\* last handoff so far, the starting agent when there was none; the agent
\* returned is that agent, and is the starting agent if and only if there
\* was no handoff or the last one returned the starting agent; no step
\* other than a tool call that returned an Agent changes the active agent
C18_FinalAgentIsLastHandoff ==
    /\ [](pc # "idle" => current_agent = ActiveAgent)
    /\ [](pc = "DONE" =>
            /\ response.agent = ActiveAgent
            /\ (response.agent = agent) <=>
                    (Handoffs = {} \/ calls_log[Max(Handoffs)].value = AgentValue(agent)))
    /\ [][AgentChangesByHandoffOnly]_vars

\* a turn with handoffs in two batches, the last one back to the agent
\* the turn was started with
C18_Witness ==
    /\ pc = "DONE"
    /\ Cardinality(Handoffs) >= 2
    /\ \E i, j \in Handoffs : calls_log[i].id[1] # calls_log[j].id[1]
    /\ \E i \in Handoffs : calls_log[i].value # AgentValue(agent)
    /\ response.agent = agent

IsPrefix(p, q) == Len(p) <= Len(q) /\ SubSeq(q, 1, Len(p)) = p

\* one step of the program seen from the caller's history and agent
HistoryStep ==
    /\ IsPrefix(lists["L0"], lists'["L0"])
    /\ pc = "idle" /\ pc' # "idle" =>
            /\ lists'["L0"] = Append(lists["L0"], UserMessage)
            /\ current_agent' = agent
            /\ agent' = agent
    /\ pc \notin {"idle", "DONE"} => lists'["L0"] = lists["L0"] /\ agent' = agent
    /\ pc = "DONE" /\ pc' # "DONE" =>
            /\ lists'["L0"] = h_entry \o response.messages
            /\ lists["L0"] = h_entry
            /\ agent' = response.agent

\* C19: the first turn is run with the triage agent; each step leaves the
\* caller's history a prefix of what it becomes; a turn is entered with
\* the history extended by the user message and with the agent the caller
\* holds; on return the history is the one passed in followed by the
\* messages returned, and the agent the caller holds is the one returned
C19_HistoryAcrossTurns == agent = "triage_agent" /\ [][HistoryStep]_vars

\* two turns have returned, the first with a handoff to the sales agent
C19_Witness ==
    /\ pc = "idle"
    /\ agent = "sales_agent"
    /\ Cardinality({i \in DOMAIN lists["L0"] : lists["L0"][i] = UserMessage}) = 2
    /\ lists["L0"][Len(lists["L0"])].role = "assistant"
    /\ Len(lists["L0"]) >= 6

\* the calls a driver made: the request, the callable and what it did
CallsOf(log) ==
    [i \in DOMAIN log |->
        [id |-> log[i].id, name |-> log[i].name, tool |-> log[i].tool,
         exc |-> log[i].exc, value |-> log[i].value]]

\* C20: as long as no tool has returned an Agent, run_full_turn of
\* Agent_functions.py, given the instructions and tools of the starting
\* agent, the same history, the same completions and the same tool
\* results, is at the same point as run_full_turn of OpenAI_agents.py, has
\* made the same calls of the same callables for the same requests in the
\* same order and holds the same messages; when both return they return
\* the same messages, and OpenAI_agents.run_full_turn returns the agent it
\* was started with
C20_DriversAgree ==
    (Handoffs = {} /\ pc # "idle") =>
        /\ af.pc = pc
        /\ af.calls_log = CallsOf(calls_log)
        /\ af.messages = Local
        /\ af.exc = error.kind
        /\ pc = "DONE" => af.returned = response.messages /\ response.agent = agent

\* both drivers have returned from a turn with two tool calls in one batch
\* and one in the next
C20_Witness ==
    /\ pc = "DONE"
    /\ af.pc = "DONE"
    /\ Handoffs = {}
    /\ Len(af.calls_log) = 3
    /\ Len(af.returned) = 6
    /\ af.returned = response.messages
====
